---- MODULE Spec2Model ----
(***************************************************************************)
(* Trial Sequential Analysis engine (src/src/lib/statistics.ts).           *)
(*                                                                         *)
(* JavaScript numbers are modelled as decimal fixed-point integers with    *)
(* four fractional digits (the value v is the integer v * Scale), plus     *)
(* the three IEEE special values NaN, +Infinity and -Infinity.  Counts     *)
(* (events, totals, patients, RIS) are plain integers.                     *)
(***************************************************************************)
EXTENDS Integers, Sequences, FiniteSets, TLC

(***************************************************************************)
(* Number representation                                                   *)
(***************************************************************************)
Scale == 10^4

PosInf == 2147483000 + 0
NegInf == 0 - 2147483000
NaN == 2147483600 + 0

IsNaN(x) == x = NaN
IsInf(x) == x = PosInf \/ x = NegInf
IsFinite(x) == ~IsNaN(x) /\ ~IsInf(x)

IAbs(n) == IF n < 0 THEN 0 - n ELSE n
ISign(n) == IF n < 0 THEN 0 - 1 ELSE IF n > 0 THEN 1 ELSE 0

\* long division of the remainder r < m: the first four decimal digits of
\* r / m, the last one rounded to nearest
LongDiv(r, m) ==
  LET r1 == (r * 10) % m
      r2 == (r1 * 10) % m
      r3 == (r2 * 10) % m
      r4 == (r3 * 10) % m
  IN ((r * 10) \div m) * 1000 + ((r1 * 10) \div m) * 100 + ((r2 * 10) \div m) * 10
       + (r3 * 10) \div m + (IF 2 * r4 >= m THEN 1 ELSE 0)

\* n / m for integers n >= 0, m > 0, as a fixed-point value rounded to nearest
RatioPos(n, m) ==
  IF m > 200000000
  THEN ((n \div 10) \div (m \div 10)) * Scale + LongDiv((n \div 10) % (m \div 10), m \div 10)
  ELSE (n \div m) * Scale + LongDiv(n % m, m)

\* n / m for integers n, m with m # 0
Ratio(n, m) == ISign(n) * ISign(m) * RatioPos(IAbs(n), IAbs(m))

\* product of two non-negative fixed-point values, rounded to nearest
MulPos(a, b) ==
  LET ah == a \div Scale
      al == a % Scale
      bh == b \div Scale
      bl == b % Scale
  IN ah * bh * Scale + ah * bl + al * bh + (al * bl + Scale \div 2) \div Scale

ToF(n) == n * Scale

\* IEEE comparisons: every comparison with NaN is false
FLt(x, y) == x # NaN /\ y # NaN /\ x < y
FLe(x, y) == x # NaN /\ y # NaN /\ x <= y
FGt(x, y) == x # NaN /\ y # NaN /\ x > y
FGe(x, y) == x # NaN /\ y # NaN /\ x >= y
FEq(x, y) == x # NaN /\ y # NaN /\ x = y

FNeg(x) == IF x = NaN THEN NaN ELSE 0 - x

FAbs(x) == IF x = NaN THEN NaN ELSE IAbs(x)

FAdd(x, y) ==
  IF x = NaN \/ y = NaN THEN NaN
  ELSE IF IsInf(x) /\ IsInf(y) THEN (IF x = y THEN x ELSE NaN)
  ELSE IF IsInf(x) THEN x
  ELSE IF IsInf(y) THEN y
  ELSE x + y

FSub(x, y) ==
  IF x = NaN \/ y = NaN THEN NaN ELSE FAdd(x, 0 - y)

FMul(x, y) ==
  IF x = NaN \/ y = NaN THEN NaN
  ELSE IF IsInf(x) \/ IsInf(y)
       THEN (IF x = 0 \/ y = 0 THEN NaN
             ELSE IF ISign(x) * ISign(y) > 0 THEN PosInf ELSE NegInf)
  ELSE ISign(x) * ISign(y) * MulPos(IAbs(x), IAbs(y))

FDiv(x, y) ==
  IF x = NaN \/ y = NaN THEN NaN
  ELSE IF IsInf(x)
       THEN (IF IsInf(y) THEN NaN
             ELSE IF ISign(x) * (IF y < 0 THEN 0 - 1 ELSE 1) > 0 THEN PosInf ELSE NegInf)
  ELSE IF IsInf(y) THEN 0
  ELSE IF y = 0
       THEN (IF x = 0 THEN NaN ELSE IF x > 0 THEN PosInf ELSE NegInf)
  ELSE Ratio(x, y)

\* Math.min / Math.max: NaN if either argument is NaN
FMin(x, y) == IF x = NaN \/ y = NaN THEN NaN ELSE IF x < y THEN x ELSE y
FMax(x, y) == IF x = NaN \/ y = NaN THEN NaN ELSE IF x > y THEN x ELSE y

(***************************************************************************)
(* Math.sqrt, Math.log, Math.exp                                           *)
(***************************************************************************)
\* one Newton step from y; done when the step no longer decreases
SqrtStep(y, y2) == IF y2 >= y THEN [y |-> y, done |-> TRUE] ELSE [y |-> y2, done |-> FALSE]

\* at most fuel Newton steps for the integer square root of x * Scale,
\* evaluated as the first half of the steps followed by the second half
RECURSIVE SqrtNewton(_, _, _)
SqrtNewton(x, st, fuel) ==
  IF st.done \/ fuel = 0 THEN st
  ELSE IF fuel = 1 THEN SqrtStep(st.y, (st.y + Ratio(x, st.y)) \div 2)
  ELSE LET half == SqrtNewton(x, st, fuel \div 2)
       IN IF half.done THEN half ELSE SqrtNewton(x, half, fuel - fuel \div 2)

\* of two candidates, the one whose square is nearest to x
SqrtPick(x, a, b) ==
  IF IAbs(MulPos(a, a) - x) <= IAbs(MulPos(b, b) - x) THEN a ELSE b

\* the Newton result y or one of its neighbours
SqrtRound(x, y) ==
  IF y > 1 THEN SqrtPick(x, SqrtPick(x, y, y - 1), y + 1) ELSE SqrtPick(x, y, y + 1)

FSqrt(x) ==
  IF x = NaN \/ x < 0 THEN NaN
  ELSE IF x = PosInf THEN PosInf
  ELSE IF x = 0 THEN 0
  ELSE SqrtRound(x, SqrtNewton(x, [y |-> (x + Scale) \div 2 + 1, done |-> FALSE], 40).y)

Pow2(k) == 2^k

\* the k with 2^k * Scale <= x < 2^(k+1) * Scale   (x >= Scale)
Log2Up(x) == CHOOSE k \in 0..17 : x < 2 * Scale * Pow2(k) /\ (k = 0 \/ x >= Scale * Pow2(k))

\* smallest k with x * 2^k >= Scale   (0 < x < Scale)
Log2Down(x) == CHOOSE k \in 1..14 : x * Pow2(k) >= Scale /\ x * Pow2(k - 1) < Scale

\* atanh(u) = u + u^3/3 + u^5/5 + u^7/7 + u^9/9 for |u| <= 1/3, u2 = u * u
AtanhSeries(u, u2) ==
  LET u3 == FMul(u, u2)
      u5 == FMul(u3, u2)
      u7 == FMul(u5, u2)
      u9 == FMul(u7, u2)
  IN u + Ratio(u3, 3 * Scale) + Ratio(u5, 5 * Scale)
       + Ratio(u7, 7 * Scale) + Ratio(u9, 9 * Scale)

Atanh(u) == AtanhSeries(u, FMul(u, u))

\* the mantissa m in [1,2) of x = m * 2^k
LogMantissa(x, k) == IF k >= 0 THEN Ratio(x, Pow2(k) * Scale) ELSE x * Pow2(0 - k)

\* k ln 2 + ln m with ln m = 2 atanh((m-1)/(m+1))
LogReduced(m, k) ==
  ISign(k) * ((IAbs(k) * 6931472 + 500) \div 1000)
    + 2 * Atanh(Ratio(m - Scale, m + Scale))

\* the exponent k of x = m * 2^k with m in [1,2)
LogExponent(x) == IF x >= Scale THEN Log2Up(x) ELSE 0 - Log2Down(x)

\* ln x for x = m * 2^k
LogOfExponent(x, k) == LogReduced(LogMantissa(x, k), k)

\* ln of a finite positive value
LogPos(x) == LogOfExponent(x, LogExponent(x))

FLog(x) ==
  IF x = NaN \/ x < 0 THEN NaN
  ELSE IF x = 0 THEN NegInf
  ELSE IF x = PosInf THEN PosInf
  ELSE LogPos(x)

\* e^r = 1 + r + r^2/2! + ... + r^6/6! for |r| <= ln2 / 2
ExpSeries(r) ==
  LET r2 == FMul(r, r)
      r3 == FMul(r2, r)
      r4 == FMul(r3, r)
      r5 == FMul(r4, r)
      r6 == FMul(r5, r)
  IN Scale + r + Ratio(r2, 2 * Scale) + Ratio(r3, 6 * Scale)
       + Ratio(r4, 24 * Scale) + Ratio(r5, 120 * Scale)
       + Ratio(r6, 720 * Scale)

\* er * 2^k
ExpShift(er, k) ==
  IF k < 0 - 17 THEN 0
  ELSE IF k < 0 THEN Ratio(er, Pow2(0 - k) * Scale)
  ELSE er * Pow2(k)

\* x - k ln2
ExpRemainder(x, k) == x - ISign(k) * ((IAbs(k) * 6931472 + 500) \div 1000)

\* the multiple of ln2 nearest to x
ExpExponent(x) == (2 * x + 6931) \div (2 * 6931)

\* e^x for x = k ln2 + r
ExpOfExponent(x, k) == ExpShift(ExpSeries(ExpRemainder(x, k)), k)

\* e^x for finite x: x = k ln2 + r, Taylor series in r
ExpFin(x) == ExpOfExponent(x, ExpExponent(x))

FExp(x) ==
  IF x = NaN THEN NaN
  ELSE IF x = PosInf THEN PosInf
  ELSE IF x = NegInf THEN 0
  ELSE ExpFin(x)

(***************************************************************************)
(* Special-function primitives                                             *)
(***************************************************************************)
\* decimal literal num / den as a fixed-point value
Dec(num, den) == Ratio(num, den)

\* tail branch of normalQuantile, q = sqrt(-2 ln p)
QuantileTail(q) ==
  LET c0 == Dec(0 - 7784894, 10^9)
      c1 == Dec(0 - 322396458, 10^9)
      c2 == Dec(0 - 240075828, 10^8)
      c3 == Dec(0 - 254973254, 10^8)
      c4 == Dec(437466414, 10^8)
      c5 == Dec(293816398, 10^8)
      d0 == Dec(7784696, 10^9)
      d1 == Dec(322467129, 10^9)
      d2 == Dec(244513414, 10^8)
      d3 == Dec(375440866, 10^8)
      num == FMul(q, FMul(q, FMul(q, FMul(q, FMul(q, c0) + c1) + c2) + c3) + c4) + c5
      den == FMul(q, FMul(q, FMul(q, FMul(q, d0) + d1) + d2) + d3) + Scale
  IN FDiv(num, den)

\* The central branch divides two nearly cancelling polynomials, so its
\* Horner steps carry six fractional digits: a * b for a value a and |b| < 1,
\* both with six fractional digits.
HMul(a, b) ==
  LET x  == IAbs(a)
      y  == IAbs(b)
      xh == x \div 1000
      xl == x % 1000
      yh == y \div 1000
      yl == y % 1000
  IN ISign(a) * ISign(b)
       * (xh * yh + (xh * yl + xl * yh + (xl * yl) \div 1000 + 500) \div 1000)

\* the rational function of the central branch, qh = q and r = q * q
CentralRatio(qh, r) ==
  LET a0 == 0 - 39696830
      a1 == 220946098
      a2 == 0 - 275928510
      a3 == 138357752
      a4 == 0 - 30664798
      a5 == 2506628
      b0 == 0 - 54476099
      b1 == 161585837
      b2 == 0 - 155698980
      b3 == 66801312
      b4 == 0 - 13280682
      num == HMul(qh, HMul(r, HMul(r, HMul(r, HMul(r, HMul(r, a0) + a1) + a2) + a3) + a4) + a5)
      den == HMul(r, HMul(r, HMul(r, HMul(r, HMul(r, b0) + b1) + b2) + b3) + b4) + 1000000
  IN Ratio(num, den)

\* central branch of normalQuantile, q = p - 0.5
QuantileCentral(q) == CentralRatio(q * 100, HMul(q * 100, q * 100))

\* Normal distribution quantile function (inverse CDF)
normalQuantile(p) ==
  LET pLow  == Dec(2425, 100000)
      pHigh == Scale - pLow
  IN IF FLe(p, 0) THEN NegInf
     ELSE IF FGe(p, Scale) THEN PosInf
     ELSE IF p = Scale \div 2 THEN 0
     ELSE IF FLt(p, pLow)
          THEN QuantileTail(FSqrt(FMul(ToF(0 - 2), FLog(p))))
     ELSE IF FLe(p, pHigh)
          THEN QuantileCentral(FSub(p, Scale \div 2))
     ELSE FNeg(QuantileTail(FSqrt(FMul(ToF(0 - 2), FLog(FSub(Scale, p))))))

\* Math.sqrt(2)
Sqrt2 == FSqrt(ToF(2))

\* the polynomial and the sign symmetry of normalCDF, t = 1 / (1 + p |x|)
CDFPoly(x, absX, t) ==
  LET a1 == Dec(254829592, 10^9)
      a2 == Dec(0 - 284496736, 10^9)
      a3 == Dec(142141374, 10^8)
      a4 == Dec(0 - 145315203, 10^8)
      a5 == Dec(106140543, 10^8)
      sign == IF FLt(x, 0) THEN 0 - 1 ELSE 1
      poly == FMul(t, FAdd(a1, FMul(t, FAdd(a2, FMul(t, FAdd(a3, FMul(t, FAdd(a4, FMul(t, a5)))))))))
      y  == FSub(Scale, FMul(poly, FExp(FNeg(FMul(absX, absX)))))
  IN FMul(Dec(5, 10), FAdd(Scale, FMul(ToF(sign), y)))

\* normalCDF for absX = |x| / sqrt(2)
CDFFromAbs(x, absX) ==
  CDFPoly(x, absX, FDiv(Scale, FAdd(Scale, FMul(absX, Dec(3275911, 10^7)))))

\* Standard normal cumulative distribution function (Abramowitz & Stegun 7.1.26)
normalCDF(x) == IF x = NaN THEN NaN ELSE CDFFromAbs(x, FDiv(FAbs(x), Sqrt2))

(***************************************************************************)
(* Spending functions and boundaries                                       *)
(***************************************************************************)
\* alpha spending without the clamp to alpha at t >= 1
lanDeMetsAlphaSpending_NoClamp(t, alpha) ==
  IF FLe(t, 0) THEN 0
  ELSE LET zAlpha == normalQuantile(FSub(Scale, FDiv(alpha, ToF(2))))
       IN FMul(ToF(2), FSub(Scale, normalCDF(FDiv(zAlpha, FSqrt(t)))))

\* Lan-DeMets alpha-spending function (O'Brien-Fleming type)
lanDeMetsAlphaSpending(t, alpha) ==
  IF FLe(t, 0) THEN 0
  ELSE IF FGe(t, Scale) THEN alpha
  ELSE LET zAlpha == normalQuantile(FSub(Scale, FDiv(alpha, ToF(2))))
       IN FMul(ToF(2), FSub(Scale, normalCDF(FDiv(zAlpha, FSqrt(t)))))

\* Lan-DeMets beta-spending function (O'Brien-Fleming type)
lanDeMetsBetaSpending(t, beta) ==
  IF FLe(t, 0) THEN 0
  ELSE IF FGe(t, Scale) THEN beta
  ELSE LET zBeta == normalQuantile(FSub(Scale, FDiv(beta, ToF(2))))
       IN FMul(ToF(2), FSub(Scale, normalCDF(FDiv(zBeta, FSqrt(t)))))

\* a boundary that divides by t where the code divides by its square root
computeMonitoringBoundary_NoSqrt(informationFraction, alpha) ==
  IF FLe(informationFraction, 0) THEN ToF(10)
  ELSE IF FGe(informationFraction, Dec(15, 10))
       THEN normalQuantile(FSub(Scale, FDiv(alpha, ToF(2))))
  ELSE LET zAlpha == normalQuantile(FSub(Scale, FDiv(alpha, ToF(2))))
       IN FDiv(zAlpha, informationFraction)

\* O'Brien-Fleming monitoring boundary
computeMonitoringBoundary(informationFraction, alpha) ==
  IF FLe(informationFraction, 0) THEN ToF(10)
  ELSE IF FGe(informationFraction, Dec(15, 10))
       THEN normalQuantile(FSub(Scale, FDiv(alpha, ToF(2))))
  ELSE LET zAlpha == normalQuantile(FSub(Scale, FDiv(alpha, ToF(2))))
       IN FDiv(zAlpha, FSqrt(informationFraction))

\* a boundary that ends at the positive quantile of 1 - beta
computeFutilityBoundary_PositiveAtEnd(informationFraction, beta, boundaryType) ==
  IF boundaryType = "none" THEN 0
  ELSE IF FLe(informationFraction, 0) THEN 0
  ELSE IF FGe(informationFraction, Scale) THEN normalQuantile(FSub(Scale, beta))
  ELSE LET zBeta == normalQuantile(FSub(Scale, FDiv(beta, ToF(2))))
           rawBoundary == FDiv(zBeta, FSqrt(informationFraction))
       IN FMin(FMul(rawBoundary, Dec(5, 10)), normalQuantile(FSub(Scale, beta)))

\* Futility boundary using beta-spending
computeFutilityBoundary(informationFraction, beta, boundaryType) ==
  IF boundaryType = "none" THEN 0
  ELSE IF FLe(informationFraction, 0) THEN 0
  ELSE IF FGe(informationFraction, Scale) THEN normalQuantile(beta)
  ELSE LET zBeta == normalQuantile(FSub(Scale, FDiv(beta, ToF(2))))
           rawBoundary == FDiv(zBeta, FSqrt(informationFraction))
       IN FMin(FMul(rawBoundary, Dec(5, 10)), normalQuantile(FSub(Scale, beta)))

(***************************************************************************)
(* Study-level and pooled odds ratios                                      *)
(***************************************************************************)
\* a correction applied only to studies without events in either arm
ContinuityCorrection_DoubleZeroOnly(study) ==
  IF study.eventsTrt = 0 /\ study.eventsCtrl = 0 THEN Dec(5, 10) ELSE 0

\* 0.5 when any cell of the 2x2 table is zero
ContinuityCorrection(study) ==
  IF \/ study.eventsTrt = 0
     \/ study.totalTrt - study.eventsTrt = 0
     \/ study.eventsCtrl = 0
     \/ study.totalCtrl - study.eventsCtrl = 0
  THEN Dec(5, 10) ELSE 0

\* the returned object, for the OR and its standard error
StudyORResult(or, se) == [or |-> or, se |-> se, weight |-> FDiv(Scale, FMul(se, se))]

\* OR and SE from the corrected cells a, b, c, d
StudyORFromCells(a, b, c, d) ==
  StudyORResult(FDiv(FMul(a, d), FMul(b, c)),
                FSqrt(FAdd(FAdd(FAdd(FDiv(Scale, a), FDiv(Scale, b)), FDiv(Scale, c)), FDiv(Scale, d))))

\* Odds ratio of a single study, continuity-corrected when a cell is zero
calculateStudyOR(study) ==
  StudyORFromCells(FAdd(ToF(study.eventsTrt), ContinuityCorrection(study)),
                   FAdd(ToF(study.totalTrt - study.eventsTrt), ContinuityCorrection(study)),
                   FAdd(ToF(study.eventsCtrl), ContinuityCorrection(study)),
                   FAdd(ToF(study.totalCtrl - study.eventsCtrl), ContinuityCorrection(study)))

IsDoubleZero(study) == study.eventsTrt = 0 /\ study.eventsCtrl = 0

\* the sums after adding one study's terms R_i, S_i, P_i, Q_i
MHAdd(acc, R_i, S_i, P_i, Q_i) ==
  [R |-> FAdd(acc.R, R_i),
   S |-> FAdd(acc.S, S_i),
   sumPR |-> FAdd(acc.sumPR, FMul(P_i, R_i)),
   sumPS_QR |-> FAdd(acc.sumPS_QR, FAdd(FMul(P_i, S_i), FMul(Q_i, R_i))),
   sumQS |-> FAdd(acc.sumQS, FMul(Q_i, S_i))]

\* an accumulation over the continuity-corrected cells of calculateStudyOR
MHAccumulate_Corrected(acc, study) ==
  LET k == ContinuityCorrection(study)
      a == FAdd(ToF(study.eventsTrt), k)
      b == FAdd(ToF(study.totalTrt - study.eventsTrt), k)
      c == FAdd(ToF(study.eventsCtrl), k)
      d == FAdd(ToF(study.totalCtrl - study.eventsCtrl), k)
      n == FAdd(FAdd(a, b), FAdd(c, d))
  IN MHAdd(acc, FDiv(FMul(a, d), n), FDiv(FMul(b, c), n),
           FDiv(FAdd(a, d), n), FDiv(FAdd(b, c), n))

\* one step of the forEach that accumulates the Mantel-Haenszel sums
MHAccumulate(acc, study) ==
  LET a == study.eventsTrt
      b == study.totalTrt - a
      c == study.eventsCtrl
      d == study.totalCtrl - c
      n == study.totalTrt + study.totalCtrl
  IN IF n > 0
     THEN MHAdd(acc, FDiv(ToF(a * d), ToF(n)), FDiv(ToF(b * c), ToF(n)),
                FDiv(ToF(a + d), ToF(n)), FDiv(ToF(b + c), ToF(n)))
     ELSE acc

RECURSIVE MHSums(_, _, _)
MHSums(validStudies, k, acc) ==
  IF k > Len(validStudies) THEN acc
  ELSE MHSums(validStudies, k + 1, MHAccumulate(acc, validStudies[k]))

\* a fallback variance of 0 where the code uses Infinity
PooledFromSums_ZeroVariance(m) ==
  LET or == IF FGt(m.S, 0) THEN FDiv(m.R, m.S) ELSE ToF(1)
      variance ==
        IF FGt(m.R, 0) /\ FGt(m.S, 0)
        THEN FAdd(FAdd(FDiv(m.sumPR, FMul(FMul(ToF(2), m.R), m.R)),
                       FDiv(m.sumPS_QR, FMul(FMul(ToF(2), m.R), m.S))),
                  FDiv(m.sumQS, FMul(FMul(ToF(2), m.S), m.S)))
        ELSE 0
  IN [or |-> or, se |-> FSqrt(variance)]

\* pooled OR and Robins-Breslow-Greenland SE from the accumulated sums
PooledFromSums(m) ==
  LET or == IF FGt(m.S, 0) THEN FDiv(m.R, m.S) ELSE ToF(1)
      variance ==
        IF FGt(m.R, 0) /\ FGt(m.S, 0)
        THEN FAdd(FAdd(FDiv(m.sumPR, FMul(FMul(ToF(2), m.R), m.R)),
                       FDiv(m.sumPS_QR, FMul(FMul(ToF(2), m.R), m.S))),
                  FDiv(m.sumQS, FMul(FMul(ToF(2), m.S), m.S)))
        ELSE PosInf
  IN [or |-> or, se |-> FSqrt(variance)]

\* the pooled estimate of the studies left after the double-zero filter
PooledOfValid(validStudies) ==
  IF Len(validStudies) = 0
  THEN [or |-> ToF(1), se |-> PosInf]
  ELSE PooledFromSums(MHSums(validStudies, 1,
                        [R |-> 0, S |-> 0, sumPR |-> 0, sumPS_QR |-> 0, sumQS |-> 0]))

\* Mantel-Haenszel pooled odds ratio with Robins-Breslow-Greenland variance
calculatePooledOR(ss) ==
  PooledOfValid(SelectSeq(ss, LAMBDA study : ~IsDoubleZero(study)))

\* log(or) / se of a pooled estimate
ZOfPooled(p) == FDiv(FLog(p.or), p.se)

\* Z-statistic for cumulative analysis
calculateZStatistic(ss) ==
  IF Len(ss) = 0 THEN 0 ELSE ZOfPooled(calculatePooledOR(ss))

\* Math.PI
Pi == Dec(314159265, 10^8)

\* Taylor series of sin y for |y| <= pi/2, y2 = y * y
SinSeries(y, y2) ==
  LET y3 == FMul(y2, y)
      y5 == FMul(FMul(y2, y), y2)
      y7 == FMul(FMul(FMul(y2, y), y2), y2)
      y9 == FMul(FMul(FMul(FMul(y2, y), y2), y2), y2)
  IN y - Ratio(y3, 6 * Scale) + Ratio(y5, 120 * Scale)
       - Ratio(y7, 5040 * Scale) + Ratio(Ratio(y9, 720 * Scale), 504 * Scale)

\* fold y0 in [-pi, pi] into [-pi/2, pi/2]
SinFold(y0) ==
  IF y0 > Pi \div 2 THEN Pi - y0
  ELSE IF y0 < 0 - (Pi \div 2) THEN 0 - Pi - y0
  ELSE y0

\* sin of the folded argument
SinOfFolded(y) == SinSeries(y, FMul(y, y))

\* Math.sin: reduce to [-pi/2, pi/2], then the Taylor series
FSin(x) ==
  IF ~IsFinite(x) THEN NaN
  ELSE SinOfFolded(SinFold(x - ((x + Pi) \div (2 * Pi)) * (2 * Pi)))

\* The tolerance 1e-10 and the floor 1e-30 lie below the resolution of the
\* number representation; each is the smallest positive representable value.
EPS == 1
FPMIN == 1

\* Lanczos coefficients c[0..8]
LanczosC ==
  << Dec(99999999, 10^8), Dec(676520368, 10^6), Dec(0 - 125913922, 10^5),
     Dec(771323429, 10^6), Dec(0 - 176615029, 10^6), Dec(125073433, 10^7),
     Dec(0 - 138571095, 10^9), Dec(998, 10^8), Dec(15, 10^8) >>

RECURSIVE LanczosSum(_, _, _)
LanczosSum(x, i, a) ==
  IF i >= 7 + 2 THEN a
  ELSE LanczosSum(x, i + 1, FAdd(a, FDiv(LanczosC[i + 1], FAdd(x, ToF(i)))))

RECURSIVE logGamma(_)
logGamma(x0) ==
  IF FLt(x0, Dec(5, 10))
  THEN FSub(FLog(FDiv(Pi, FSin(FMul(Pi, x0)))), logGamma(FSub(Scale, x0)))
  ELSE LET x == FSub(x0, Scale)
           a == LanczosSum(x, 1, LanczosC[1])
           t == FAdd(FAdd(x, ToF(7)), Dec(5, 10))
       IN FAdd(FSub(FAdd(FMul(Dec(5, 10), FLog(FMul(ToF(2), Pi))),
                         FMul(FAdd(x, Dec(5, 10)), FLog(t))),
                    t),
               FLog(a))

\* term *= x / (a + n); sum += term; the break taken when |term| < 1e-10
GammaSeriesUpdate(st, term) ==
  [term |-> term, sum |-> FAdd(st.sum, term), done |-> FLt(FAbs(term), EPS)]

\* the body of the series loop for one n; nothing happens after the break
GammaSeriesStep(a, x, n, st) ==
  IF st.done THEN st
  ELSE GammaSeriesUpdate(st, FMul(st.term, FDiv(x, FAdd(a, ToF(n)))))

\* series loop of regularizedGammaP, for (n = lo; n <= hi; n++), evaluated
\* as the first half of the range and, unless it took the break, the second
RECURSIVE GammaSeries(_, _, _, _, _)
GammaSeries(a, x, lo, hi, st) ==
  IF lo = hi THEN GammaSeriesStep(a, x, lo, st)
  ELSE LET half == GammaSeries(a, x, lo, (lo + hi) \div 2, st)
       IN IF half.done THEN half
          ELSE GammaSeries(a, x, (lo + hi) \div 2 + 1, hi, half)

\* if (Math.abs(v) < 1e-30) v = 1e-30
FloorTiny(v) == IF FLt(FAbs(v), FPMIN) THEN FPMIN ELSE v

\* del = d * c; h *= del; the break taken when |del - 1| < 1e-10
GammaCFDelta(b, c, d, h, del) ==
  [b |-> b, c |-> c, d |-> d, h |-> FMul(h, del),
   done |-> FLt(FAbs(FSub(del, Scale)), EPS)]

\* d = 1 / d for the floored c and d
GammaCFUpdate(b, c, d, h) ==
  GammaCFDelta(b, c, FDiv(Scale, d), h, FMul(FDiv(Scale, d), c))

\* an = -i * (i - a); b += 2; d = an * d + b; c = b + an / c
GammaCFTerm(an, b, st) ==
  GammaCFUpdate(b, FloorTiny(FAdd(b, FDiv(an, st.c))),
                FloorTiny(FAdd(FMul(an, st.d), b)), st.h)

\* the body of the continued-fraction loop for one i; nothing happens after
\* the break
GammaCFStep(a, i, st) ==
  IF st.done THEN st
  ELSE GammaCFTerm(FMul(ToF(0 - i), FSub(ToF(i), a)), FAdd(st.b, ToF(2)), st)

\* continued-fraction loop of regularizedGammaQ, for (i = lo; i <= hi; i++),
\* evaluated as the first half of the range and, unless it took the break,
\* the second
RECURSIVE GammaCF(_, _, _, _)
GammaCF(a, lo, hi, st) ==
  IF lo = hi THEN GammaCFStep(a, lo, st)
  ELSE LET half == GammaCF(a, lo, (lo + hi) \div 2, st)
       IN IF half.done THEN half ELSE GammaCF(a, (lo + hi) \div 2 + 1, hi, half)

\* exp(-x + a * log(x) - logGamma(a))
GammaPrefactor(a, x) == FExp(FSub(FAdd(FNeg(x), FMul(a, FLog(x))), logGamma(a)))

\* the loop variables b, c, d, h before the continued-fraction loop
GammaCFInit(b) ==
  [b |-> b, c |-> FDiv(Scale, FPMIN), d |-> FDiv(Scale, b), h |-> FDiv(Scale, b),
   done |-> FALSE]

regularizedGammaQ(a, x) ==
  FMul(GammaPrefactor(a, x), GammaCF(a, 1, 100, GammaCFInit(FSub(FAdd(x, Scale), a))).h)

\* the loop variables term and sum before the series loop
GammaSeriesInit(a) == [term |-> FDiv(Scale, a), sum |-> FDiv(Scale, a), done |-> FALSE]

regularizedGammaP(a, x) ==
  IF FEq(x, 0) THEN 0
  ELSE IF FLt(x, FAdd(a, Scale))
       THEN FMul(GammaSeries(a, x, 1, 99, GammaSeriesInit(a)).sum, GammaPrefactor(a, x))
  ELSE FSub(Scale, regularizedGammaQ(a, x))

\* Chi-squared distribution CDF; df is a count
chiSquaredCDF(x, df) ==
  IF FLe(x, 0) \/ df <= 0 THEN 0
  ELSE regularizedGammaP(FDiv(ToF(df), ToF(2)), FDiv(x, ToF(2)))

(***************************************************************************)
(* Heterogeneity                                                           *)
(***************************************************************************)
\* the sums after adding one study's weight and deviation
HetAdd(acc, weight, dev) ==
  [q |-> FAdd(acc.q, FMul(weight, FMul(dev, dev))),
   sumWeights |-> FAdd(acc.sumWeights, weight),
   sumWeightsSquared |-> FAdd(acc.sumWeightsSquared, FMul(weight, weight))]

\* one step of the forEach over the studies, e = calculateStudyOR(study)
HetAccumulate(acc, logPooledOR, e) ==
  HetAdd(acc, FDiv(Scale, FMul(e.se, e.se)), FSub(FLog(e.or), logPooledOR))

RECURSIVE HetSums(_, _, _, _)
HetSums(ss, k, logPooledOR, acc) ==
  IF k > Len(ss) THEN acc
  ELSE HetSums(ss, k + 1, logPooledOR,
               HetAccumulate(acc, logPooledOR, calculateStudyOR(ss[k])))

\* Q, I2, tau2 and the p-value from the accumulated sums
HeterogeneityFromSums(m, df) ==
  LET q == m.q
      c == FSub(m.sumWeights, FDiv(m.sumWeightsSquared, m.sumWeights))
      tau2 == FMax(0, FDiv(FSub(q, ToF(df)), c))
      i2 == FMax(0, FMin(ToF(100), FMul(FDiv(FSub(q, ToF(df)), q), ToF(100))))
      pValue == FSub(Scale, chiSquaredCDF(q, df))
  IN [q |-> q, i2 |-> i2, tau2 |-> tau2, pValue |-> pValue]

\* the statistics computed for every list, however short
calculateHeterogeneity_NoGuard(ss) ==
  HeterogeneityFromSums(
    HetSums(ss, 1, FLog(calculatePooledOR(ss).or),
            [q |-> 0, sumWeights |-> 0, sumWeightsSquared |-> 0]),
    Len(ss) - 1)

calculateHeterogeneity(ss) ==
  IF Len(ss) < 2 THEN [q |-> 0, i2 |-> 0, tau2 |-> 0, pValue |-> ToF(1)]
  ELSE HeterogeneityFromSums(
         HetSums(ss, 1, FLog(calculatePooledOR(ss).or),
                 [q |-> 0, sumWeights |-> 0, sumWeightsSquared |-> 0]),
         Len(ss) - 1)

(***************************************************************************)
(* Required Information Size                                               *)
(***************************************************************************)
\* Math.ceil of a finite value, as an integer count
FCeil(x) == 0 - ((0 - x) \div Scale)

\* total sample size from the log odds ratio
RISFromLogOR(zAlpha, zBeta, p0, p1, logOR, heterogeneityCorrection) ==
  IF FLt(FAbs(logOR), Dec(1, 1000))
  THEN 100000
  ELSE LET varComponent == FAdd(FDiv(Scale, FMul(p1, FSub(Scale, p1))),
                                FDiv(Scale, FMul(p0, FSub(Scale, p0))))
           nPerArm == FDiv(FMul(FMul(FAdd(zAlpha, zBeta), FAdd(zAlpha, zBeta)),
                                varComponent),
                           FMul(logOR, logOR))
           totalN == FMul(FMul(ToF(2), nPerArm), heterogeneityCorrection)
       IN FCeil(totalN)

\* the anticipated odds ratio of rates that were never checked
RISFromRates_Unvalidated(zAlpha, zBeta, p0, p1, heterogeneityCorrection) ==
  RISFromLogOR(zAlpha, zBeta, p0, p1,
               FLog(FDiv(FDiv(p1, FSub(Scale, p1)), FDiv(p0, FSub(Scale, p0)))),
               heterogeneityCorrection)

\* the rate checks, then the anticipated odds ratio
RISFromRates(zAlpha, zBeta, p0, p1, heterogeneityCorrection) ==
  IF FLe(p0, 0) \/ FGe(p0, Scale) \/ FLe(p1, 0) \/ FGe(p1, Scale)
  THEN 100000
  ELSE RISFromLogOR(zAlpha, zBeta, p0, p1,
                    FLog(FDiv(FDiv(p1, FSub(Scale, p1)), FDiv(p0, FSub(Scale, p0)))),
                    heterogeneityCorrection)

calculateRIS(params) ==
  RISFromRates(normalQuantile(FSub(Scale, FDiv(params.alpha, ToF(2)))),
               normalQuantile(FSub(Scale, params.beta)),
               params.controlRate,
               FMul(params.controlRate, FSub(Scale, FDiv(params.effectSize, ToF(100)))),
               params.heterogeneityCorrection)

\* 1 / (1 - I2) for I2 in percent, 100 from 99 percent on
I2AdjustmentFactor(i2) ==
  IF FLt(FDiv(i2, ToF(100)), Dec(99, 100))
  THEN FDiv(Scale, FSub(Scale, FDiv(i2, ToF(100))))
  ELSE ToF(100)

\* the size without heterogeneity correction, inflated for I2
calculateRISWithI2(params, i2) ==
  FCeil(calculateRIS([params EXCEPT !.heterogeneityCorrection = Scale])
          * I2AdjustmentFactor(i2))

(***************************************************************************)
(* Inputs                                                                  *)
(***************************************************************************)
MaxStudies == 3

Study(name, year, eventsTrt, totalTrt, eventsCtrl, totalCtrl) ==
  [name |-> name, year |-> year,
   eventsTrt |-> eventsTrt, totalTrt |-> totalTrt,
   eventsCtrl |-> eventsCtrl, totalCtrl |-> totalCtrl]

\* events <= totals and totals > 0 in every study
StudyPool ==
  { Study("A", 2019, 30, 40, 10, 40),    \* more events under treatment
    Study("B", 2020, 5, 40, 25, 40),     \* fewer events under treatment
    Study("C", 2021, 10, 50, 10, 50),    \* no difference
    Study("D", 2022, 0, 20, 0, 20),      \* double-zero
    Study("E", 2023, 0, 50, 10, 50),     \* no events under treatment
    Study("F", 2024, 12, 30, 15, 30) }   \* small difference

StudyLists == UNION { [1..n -> StudyPool] : n \in 0..MaxStudies }

TSAParams(alpha, beta, controlRate, effectSize, heterogeneityCorrection, futilityBoundaryType, useI2Adjustment) ==
  [alpha |-> alpha, beta |-> beta, controlRate |-> controlRate,
   effectSize |-> effectSize,
   heterogeneityCorrection |-> heterogeneityCorrection,
   futilityBoundaryType |-> futilityBoundaryType,
   useI2Adjustment |-> useI2Adjustment]

\* alpha, beta in (0, 0.5), control rate in (0, 1), RRR in (0, 100) percent,
\* heterogeneity correction >= 1; "undefined" is an absent optional field
ParamsPool ==
  { TSAParams(Dec(5, 100), Dec(20, 100), Dec(50, 100), ToF(50), Dec(15, 10),
              "undefined", "undefined"),
    TSAParams(Dec(1, 100), Dec(10, 100), Dec(50, 100), ToF(50), ToF(1),
              "none", FALSE),
    TSAParams(Dec(5, 100), Dec(20, 100), Dec(15, 100), ToF(35), Dec(12, 10),
              "obrien-fleming", TRUE) }

(***************************************************************************)
(* calculateTSA                                                            *)
(***************************************************************************)
VARIABLES studies, params, pc, i, cumulativeN, cumulativeData,
          heterogeneity, ris, result,
          call    \* the library function applied on its own, with its value

vars == <<studies, params, pc, i, cumulativeN, cumulativeData,
          heterogeneity, ris, result, call>>

\* no library function has been applied on its own
NoCall == [fn |-> "none"]

Pending == [kind |-> "pending"]
Null == [kind |-> "null"]

\* `${name} (${year})`
StudyLabel(study) == <<study.name, study.year>>

\* zStat without the guard on the pooled SE
StepZ_Unguarded(pooled) == FDiv(FLog(pooled.or), pooled.se)

\* zStat of one step: 0 when the pooled SE is infinite or zero
StepZ(pooled) ==
  IF FGt(pooled.se, 0) /\ FLt(pooled.se, PosInf)
  THEN FDiv(FLog(pooled.or), pooled.se)
  ELSE 0

\* the record of one iteration, from the pooled estimate and the
\* information fraction
DataPoint(label, n, pooled, informationFraction, p) ==
  [study |-> label,
   patients |-> n,
   informationFraction |-> informationFraction,
   zStatistic |-> StepZ(pooled),
   monitoringBoundary |-> computeMonitoringBoundary(informationFraction, p.alpha),
   \* the boundary type is not passed: the default is 'obrien-fleming'
   futilityBoundary |-> computeFutilityBoundary(informationFraction, p.beta,
                                                "obrien-fleming"),
   pooledOR |-> pooled.or,
   ci95Lower |-> FExp(FSub(FLog(pooled.or), FMul(Dec(196, 100), pooled.se))),
   ci95Upper |-> FExp(FAdd(FLog(pooled.or), FMul(Dec(196, 100), pooled.se))),
   alphaSpent |-> lanDeMetsAlphaSpending(informationFraction, p.alpha),
   betaSpent |-> lanDeMetsBetaSpending(informationFraction, p.beta)]

\* a record pooled over the whole list instead of the studies so far
CumulativeDataPoint_AllStudies(ss, k, n, p, r) ==
  DataPoint(StudyLabel(ss[k]), n, calculatePooledOR(ss), FDiv(ToF(n), ToF(r)), p)

\* the record pushed by one iteration of the loop, n = cumulativeN after
\* adding the study
CumulativeDataPoint(ss, k, n, p, r) ==
  DataPoint(StudyLabel(ss[k]), n, calculatePooledOR(SubSeq(ss, 1, k)),
            FDiv(ToF(n), ToF(r)), p)

\* Number.prototype.toFixed(0) of a finite non-negative value
ToFixed0(x) == (x + Scale \div 2) \div Scale

\* Interpretation with the Math.abs of the crossing test forgotten
Interpretation_NoAbs(last) ==
  LET percentComplete == ToFixed0(FMul(last.informationFraction, ToF(100)))
  IN IF FGt(last.zStatistic, last.monitoringBoundary)
     THEN [type |-> IF FGt(last.zStatistic, 0) THEN "conclusive-benefit"
                    ELSE "conclusive-harm",
           title |-> IF FGt(last.zStatistic, 0) THEN "Conclusive: Favors Treatment"
                     ELSE "Conclusive: Favors Control",
           message |-> <<"crossed the monitoring boundary", percentComplete>>]
     ELSE IF FGt(last.futilityBoundary, 0)
             /\ FLt(FAbs(last.zStatistic), last.futilityBoundary)
     THEN [type |-> "futility",
           title |-> "Futility: Treatments Likely Similar",
           message |-> <<"within the futility boundary", percentComplete>>]
     ELSE [type |-> "inconclusive",
           title |-> "Inconclusive",
           message |-> <<"more studies needed", percentComplete>>]

\* the interpretation derived from the last record
Interpretation(last) ==
  LET percentComplete == ToFixed0(FMul(last.informationFraction, ToF(100)))
  IN IF FGt(FAbs(last.zStatistic), last.monitoringBoundary)
     THEN [type |-> IF FGt(last.zStatistic, 0) THEN "conclusive-benefit"
                    ELSE "conclusive-harm",
           title |-> IF FGt(last.zStatistic, 0) THEN "Conclusive: Favors Treatment"
                     ELSE "Conclusive: Favors Control",
           message |-> <<"crossed the monitoring boundary", percentComplete>>]
     ELSE IF FGt(last.futilityBoundary, 0)
             /\ FLt(FAbs(last.zStatistic), last.futilityBoundary)
     THEN [type |-> "futility",
           title |-> "Futility: Treatments Likely Similar",
           message |-> <<"within the futility boundary", percentComplete>>]
     ELSE [type |-> "inconclusive",
           title |-> "Inconclusive",
           message |-> <<"more studies needed", percentComplete>>]

TSAResults(r, data, het) ==
  LET last == data[Len(data)]
  IN [kind |-> "results",
      ris |-> r,
      totalPatients |-> last.patients,
      informationFraction |-> last.informationFraction,
      pooledOR |-> last.pooledOR,
      ci95Lower |-> last.ci95Lower,
      ci95Upper |-> last.ci95Upper,
      finalZ |-> last.zStatistic,
      cumulativeData |-> data,
      interpretation |-> Interpretation(last),
      heterogeneity |-> het]

Init ==
  /\ studies \in StudyLists
  /\ params \in ParamsPool
  /\ pc = "start"
  /\ i = 0
  /\ cumulativeN = 0
  /\ cumulativeData = <<>>
  /\ heterogeneity = [q |-> 0, i2 |-> 0, tau2 |-> 0, pValue |-> 0]
  /\ ris = 0
  /\ result = Pending
  /\ call = NoCall

\* the empty list answered with a result object that has an empty trace
ReturnNull_EmptyTrace ==
  /\ pc = "start"
  /\ Len(studies) = 0
  /\ result' = [kind |-> "results", ris |-> calculateRIS(params),
                cumulativeData |-> <<>>]
  /\ pc' = "done"
  /\ UNCHANGED <<studies, params, i, cumulativeN, cumulativeData, heterogeneity, ris, call>>

\* if (studies.length === 0) return null
ReturnNull ==
  /\ pc = "start"
  /\ Len(studies) = 0
  /\ result' = Null
  /\ pc' = "done"
  /\ UNCHANGED <<studies, params, i, cumulativeN, cumulativeData, heterogeneity, ris, call>>

\* a run that keeps the running count and the trace of the run before
Start_NoReset ==
  /\ pc = "start"
  /\ Len(studies) # 0
  /\ heterogeneity' = calculateHeterogeneity(studies)
  /\ ris' = calculateRIS(params)
  /\ i' = 0
  /\ pc' = "loop"
  /\ UNCHANGED <<studies, params, result, call, cumulativeN, cumulativeData>>

\* heterogeneity, RIS and the loop's initial state
Start ==
  /\ pc = "start"
  /\ Len(studies) # 0
  /\ heterogeneity' = calculateHeterogeneity(studies)
  /\ ris' = calculateRIS(params)
  /\ cumulativeData' = <<>>
  /\ cumulativeN' = 0
  /\ i' = 0
  /\ pc' = "loop"
  /\ UNCHANGED <<studies, params, result, call>>

\* a loop that stops at the first record that crosses a boundary
LoopGuard_StopAtCrossing ==
  /\ i < Len(studies)
  /\ IF i = 0 THEN TRUE
     ELSE LET prev == cumulativeData[i]
          IN /\ ~FGt(FAbs(prev.zStatistic), prev.monitoringBoundary)
             /\ ~FLt(FAbs(prev.zStatistic), prev.futilityBoundary)

\* loop continues while i < studies.length
LoopGuard == i < Len(studies)

\* the running count with the control arm forgotten
NextCumulativeN_TrtOnly(n, study) == n + study.totalTrt

\* cumulativeN += studies[i].totalTrt + studies[i].totalCtrl
NextCumulativeN(n, study) == n + study.totalTrt + study.totalCtrl

\* one iteration of the loop over the studies
LoopStep ==
  /\ pc = "loop"
  /\ LoopGuard
  /\ LET n == NextCumulativeN(cumulativeN, studies[i + 1])
     IN /\ cumulativeN' = n
        /\ cumulativeData' =
             Append(cumulativeData, CumulativeDataPoint(studies, i + 1, n, params, ris))
  /\ i' = i + 1
  /\ UNCHANGED <<studies, params, pc, heterogeneity, ris, result, call>>

\* after the loop: interpretation and the returned object
Finish ==
  /\ pc = "loop"
  /\ ~LoopGuard
  /\ result' = TSAResults(ris, cumulativeData, heterogeneity)
  /\ pc' = "done"
  /\ UNCHANGED <<studies, params, i, cumulativeN, cumulativeData, heterogeneity, ris, call>>

Next == ReturnNull \/ Start \/ LoopStep \/ Finish

Spec == Init /\ [][Next]_vars

(***************************************************************************)
(* calculateTSA called a second time with the same arguments               *)
(***************************************************************************)
\* the caller keeps the first result and calls again; the locals of the
\* first run are whatever that run left
CallAgain ==
  /\ pc = "done"
  /\ call = NoCall
  /\ call' = [fn |-> "calculateTSA", studies |-> studies, params |-> params,
              value |-> result]
  /\ result' = Pending
  /\ pc' = "start"
  /\ UNCHANGED <<studies, params, i, cumulativeN, cumulativeData, heterogeneity, ris>>

\* the caller keeps the first result and calls with the first k studies
CallOnPrefix ==
  /\ pc = "done"
  /\ call = NoCall
  /\ \E k \in 1..(Len(studies) - 1) :
       /\ call' = [fn |-> "calculateTSA on a prefix", studies |-> studies,
                   params |-> params, value |-> result]
       /\ studies' = SubSeq(studies, 1, k)
  /\ result' = Pending
  /\ pc' = "start"
  /\ UNCHANGED <<params, i, cumulativeN, cumulativeData, heterogeneity, ris>>

AgainNext == ReturnNull \/ Start \/ LoopStep \/ Finish \/ CallAgain \/ CallOnPrefix

Again == Init /\ [][AgainNext]_vars

(***************************************************************************)
(* The library functions applied on their own                              *)
(***************************************************************************)
tsaVars == <<studies, params, pc, i, cumulativeN, cumulativeData,
             heterogeneity, ris, result>>

MaxT == 32
TStep == Scale \div 20

\* information fractions from below 0 to above 1.5, in steps of 0.05
TGrid == { k * TStep : k \in (0 - 2)..MaxT }

\* information fractions for the spending functions: none, three early
\* looks, and from one half on in steps of 0.05
SpendingTGrid ==
  { 0 - TStep, 0, Dec(1, 100), Dec(2, 100), Dec(5, 100) }
    \cup { k * TStep : k \in 10..MaxT }

AlphaPool == { Dec(1, 100), Dec(5, 100), Dec(10, 100), Dec(25, 100), Dec(40, 100), Dec(49, 100) }
BetaPool == { Dec(1, 100), Dec(5, 100), Dec(10, 100), Dec(20, 100), Dec(40, 100) }

\* the significance levels in common use
SpendingPool == { Dec(1, 100), Dec(5, 100) }

BoundaryTypes == { "undefined", "obrien-fleming", "none" }

\* events <= totals and totals > 0 in every study
FunctionStudyPool ==
  StudyPool \cup
    { Study("G", 2025, 10, 50, 0, 50),     \* no events under control
      Study("H", 2026, 20, 20, 5, 20),     \* events in all treated
      Study("I", 2027, 5, 20, 20, 20),     \* events in all controls
      Study("J", 2028, 20, 20, 20, 20) }   \* events in everyone

FunctionStudyLists == UNION { [1..n -> FunctionStudyPool] : n \in 0..MaxStudies }

\* parameters of calculateRIS, with control rates and relative risk
\* reductions inside and outside their ranges
RISParamsPool ==
  { TSAParams(alpha, beta, controlRate, effectSize, h, "undefined", "undefined") :
      alpha \in { Dec(1, 100), Dec(5, 100) },
      beta \in { Dec(10, 100), Dec(20, 100) },
      controlRate \in { 0 - Dec(10, 100), 0, Dec(15, 100), Dec(50, 100), Dec(80, 100), ToF(1), Dec(12, 10) },
      effectSize \in { ToF(0 - 50), 0, Dec(1, 100), ToF(25), ToF(30), ToF(50),
                     ToF(90), ToF(99), ToF(100), ToF(120) },
      h \in { ToF(1), Dec(15, 10) } }

FunctionsInit ==
  /\ call = NoCall
  /\ studies = <<>>
  /\ params = TSAParams(Dec(5, 100), Dec(20, 100), Dec(50, 100), ToF(50), ToF(1), "undefined", "undefined")
  /\ pc = "idle"
  /\ i = 0
  /\ cumulativeN = 0
  /\ cumulativeData = <<>>
  /\ heterogeneity = [q |-> 0, i2 |-> 0, tau2 |-> 0, pValue |-> 0]
  /\ ris = 0
  /\ result = Pending

ApplyAlphaSpending ==
  /\ call = NoCall
  /\ \E t \in SpendingTGrid, alpha \in SpendingPool :
       call' = [fn |-> "lanDeMetsAlphaSpending", t |-> t, alpha |-> alpha,
                value |-> lanDeMetsAlphaSpending(t, alpha)]
  /\ UNCHANGED tsaVars

ApplyBetaSpending ==
  /\ call = NoCall
  /\ \E t \in SpendingTGrid, beta \in BetaPool :
       call' = [fn |-> "lanDeMetsBetaSpending", t |-> t, beta |-> beta,
                value |-> lanDeMetsBetaSpending(t, beta)]
  /\ UNCHANGED tsaVars

ApplyMonitoringBoundary ==
  /\ call = NoCall
  /\ \E t \in TGrid, alpha \in AlphaPool :
       call' = [fn |-> "computeMonitoringBoundary", t |-> t, alpha |-> alpha,
                value |-> computeMonitoringBoundary(t, alpha)]
  /\ UNCHANGED tsaVars

ApplyFutilityBoundary ==
  /\ call = NoCall
  /\ \E t \in TGrid, beta \in BetaPool, boundaryType \in BoundaryTypes :
       call' = [fn |-> "computeFutilityBoundary", t |-> t, beta |-> beta,
                boundaryType |-> boundaryType,
                value |-> computeFutilityBoundary(t, beta, boundaryType)]
  /\ UNCHANGED tsaVars

ApplyStudyOR ==
  /\ call = NoCall
  /\ \E study \in FunctionStudyPool :
       call' = [fn |-> "calculateStudyOR", study |-> study,
                value |-> calculateStudyOR(study)]
  /\ UNCHANGED tsaVars

ApplyPooledOR ==
  /\ call = NoCall
  /\ \E ss \in FunctionStudyLists :
       call' = [fn |-> "calculatePooledOR", studies |-> ss,
                value |-> calculatePooledOR(ss)]
  /\ UNCHANGED tsaVars

ApplyHeterogeneity ==
  /\ call = NoCall
  /\ \E ss \in FunctionStudyLists :
       call' = [fn |-> "calculateHeterogeneity", studies |-> ss,
                value |-> calculateHeterogeneity(ss)]
  /\ UNCHANGED tsaVars

ApplyRIS ==
  /\ call = NoCall
  /\ \E p \in RISParamsPool :
       call' = [fn |-> "calculateRIS", params |-> p, value |-> calculateRIS(p)]
  /\ UNCHANGED tsaVars

FunctionsNext ==
  \/ ApplyAlphaSpending \/ ApplyBetaSpending
  \/ ApplyMonitoringBoundary \/ ApplyFutilityBoundary
  \/ ApplyStudyOR \/ ApplyPooledOR \/ ApplyHeterogeneity \/ ApplyRIS

Functions == FunctionsInit /\ [][FunctionsNext]_vars

(***************************************************************************)
(* chiSquaredCDF step by step: the loops of regularizedGammaP and          *)
(* regularizedGammaQ and the calls of logGamma                             *)
(***************************************************************************)
\* arguments of chiSquaredCDF: non-positive, small, large, Infinity and NaN
ChiXPool ==
  { ToF(0 - 1), 0, Dec(1, 10), ToF(1), ToF(3), ToF(5), ToF(40), ToF(4000),
    PosInf, NaN }

ChiDfPool ==
  { ToF(0 - 1), 0, Dec(5, 10), Dec(9, 10), ToF(1), ToF(2), ToF(3), ToF(10),
    ToF(4000), PosInf, NaN }

\* the frame of a call that has not returned
ChiFrame(x, df) ==
  [fn |-> "chiSquaredCDF", x |-> x, df |-> df, a |-> FDiv(df, ToF(2)),
   x2 |-> FDiv(x, ToF(2)), phase |-> "chiSquaredCDF", branch |-> "none",
   n |-> 0, iterations |-> 0, st |-> [done |-> FALSE], arg |-> 0, depth |-> 0]

\* the value a returned call hands back, from the locals it returned with
ChiReturnValue(frame) ==
  IF frame.branch = "series"
  THEN FMul(frame.st.sum, GammaPrefactor(frame.a, frame.x2))
  ELSE IF frame.branch = "fraction"
  THEN FSub(Scale, FMul(GammaPrefactor(frame.a, frame.x2), frame.st.h))
  ELSE 0

\* for (let n = 1; n < 100; n++)
SeriesLoopGuard(n) == n < 100

\* a loop that runs twice as long
FractionLoopGuard_Cap200(i_) == i_ <= 200

\* for (let i = 1; i <= 100; i++)
FractionLoopGuard(i_) == i_ <= 100

\* if (x < 0.5)
LogGammaReflects(x) == FLt(x, Dec(5, 10))

ChiCall ==
  /\ call = NoCall
  /\ \E x \in ChiXPool, df \in ChiDfPool : call' = ChiFrame(x, df)
  /\ UNCHANGED tsaVars

\* if (x <= 0 || df <= 0) return 0
ChiReturnZero ==
  /\ call.fn = "chiSquaredCDF"
  /\ call.phase = "chiSquaredCDF"
  /\ FLe(call.x, 0) \/ FLe(call.df, 0)
  /\ call' = [call EXCEPT !.phase = "returned"]
  /\ UNCHANGED tsaVars

\* return regularizedGammaP(df / 2, x / 2), up to the first loop
GammaPEnter ==
  /\ call.fn = "chiSquaredCDF"
  /\ call.phase = "chiSquaredCDF"
  /\ ~(FLe(call.x, 0) \/ FLe(call.df, 0))
  /\ call' =
       IF FEq(call.x2, 0)
       THEN [call EXCEPT !.phase = "returned"]
       ELSE IF FLt(call.x2, FAdd(call.a, Scale))
       THEN [call EXCEPT !.phase = "series", !.branch = "series", !.n = 1,
                         !.st = GammaSeriesInit(call.a)]
       ELSE [call EXCEPT !.phase = "fraction", !.branch = "fraction", !.n = 1,
                         !.st = GammaCFInit(FSub(FAdd(call.x2, Scale), call.a))]
  /\ UNCHANGED tsaVars

\* one iteration of the series loop; n++ unless the break is taken
SeriesStep ==
  /\ call.fn = "chiSquaredCDF"
  /\ call.phase = "series"
  /\ ~call.st.done
  /\ SeriesLoopGuard(call.n)
  /\ LET st == GammaSeriesStep(call.a, call.x2, call.n, call.st)
     IN call' = [call EXCEPT !.st = st, !.iterations = @ + 1,
                             !.n = IF st.done THEN @ ELSE @ + 1]
  /\ UNCHANGED tsaVars

\* the series loop left by the break or by its condition; logGamma(a) called
SeriesExit ==
  /\ call.fn = "chiSquaredCDF"
  /\ call.phase = "series"
  /\ call.st.done \/ ~SeriesLoopGuard(call.n)
  /\ call' = [call EXCEPT !.phase = "logGamma", !.arg = call.a, !.depth = 0]
  /\ UNCHANGED tsaVars

\* one iteration of the continued-fraction loop, statement by statement;
\* i++ unless the break is taken
FractionStep ==
  /\ call.fn = "chiSquaredCDF"
  /\ call.phase = "fraction"
  /\ ~call.st.done
  /\ FractionLoopGuard(call.n)
  /\ \E an \in { FMul(ToF(0 - call.n), FSub(ToF(call.n), call.a)) } :
     \E b \in { FAdd(call.st.b, ToF(2)) } :
     \E d \in { FDiv(Scale, FloorTiny(FAdd(FMul(an, call.st.d), b))) } :
     \E c \in { FloorTiny(FAdd(b, FDiv(an, call.st.c))) } :
     \E del \in { FMul(d, c) } :
     \E st \in { GammaCFDelta(b, c, d, call.st.h, del) } :
       call' = [call EXCEPT !.st = st, !.iterations = @ + 1,
                            !.n = IF st.done THEN @ ELSE @ + 1]
  /\ UNCHANGED tsaVars

\* the continued-fraction loop left by the break or by its condition;
\* logGamma(a) called
FractionExit ==
  /\ call.fn = "chiSquaredCDF"
  /\ call.phase = "fraction"
  /\ call.st.done \/ ~FractionLoopGuard(call.n)
  /\ call' = [call EXCEPT !.phase = "logGamma", !.arg = call.a, !.depth = 0]
  /\ UNCHANGED tsaVars

\* logGamma calls itself with 1 - x
LogGammaReflect ==
  /\ call.fn = "chiSquaredCDF"
  /\ call.phase = "logGamma"
  /\ LogGammaReflects(call.arg)
  /\ call' = [call EXCEPT !.arg = FSub(Scale, call.arg), !.depth = @ + 1]
  /\ UNCHANGED tsaVars

\* logGamma returns through every frame and the caller returns its value
LogGammaReturn ==
  /\ call.fn = "chiSquaredCDF"
  /\ call.phase = "logGamma"
  /\ ~LogGammaReflects(call.arg)
  /\ call' = [call EXCEPT !.phase = "returned"]
  /\ UNCHANGED tsaVars

ChiNext ==
  \/ ChiCall
  \/ ChiReturnZero
  \/ GammaPEnter
  \/ SeriesStep
  \/ SeriesExit
  \/ FractionStep
  \/ FractionExit
  \/ LogGammaReflect
  \/ LogGammaReturn

\* a call runs on until it returns: nothing else is scheduled in between
ChiSquared == FunctionsInit /\ [][ChiNext]_vars /\ WF_vars(ChiNext)

(***************************************************************************)
(* TSAAgentOrchestrator.runFullAnalysis: one action per stretch of code     *)
(* between two awaits                                                       *)
(***************************************************************************)
PipelineStudyLists == { ss \in StudyLists : Len(ss) <= 1 }

\* the report of AgentBond.qualityCheck; the validations are the tools' answers
QualityReport(dataValid, methodologyValid, hasDuplicates) ==
  [passed |-> dataValid /\ methodologyValid /\ ~hasDuplicates,
   dataValid |-> dataValid, methodologyValid |-> methodologyValid,
   hasDuplicates |-> hasDuplicates, overallSummary |-> "Quality check"]

\* the minimal report created when the quality check is skipped
SkippedQualityReport ==
  [passed |-> TRUE, dataValid |-> TRUE, methodologyValid |-> TRUE,
   hasDuplicates |-> FALSE, overallSummary |-> "Quality check skipped"]

\* new QualityError(report)
QualityError(report) == [name |-> "QualityError", report |-> report]

\* a gate that lets every report through
QualityGateCloses_Never(report) == FALSE

\* if (!qualityReport.passed) throw new QualityError(qualityReport)
QualityGateCloses(report) == ~report.passed

\* the value the promise resolves with
FullPipelineResult(frame, visualReport, errors) ==
  [qualityReport |-> frame.qualityReport, analysisReport |-> frame.analysisReport,
   visualReport |-> visualReport, success |-> errors = <<>>, errors |-> errors]

\* the call up to its first await: the quality check started, or skipped and
\* the analysis started
RunFullAnalysis ==
  /\ call = NoCall
  /\ \E ss \in PipelineStudyLists, p \in ParamsPool, skipQuality \in BOOLEAN,
        skipVisual \in BOOLEAN :
       call' = [fn |-> "runFullAnalysis", studies |-> ss, params |-> p,
                skipQuality |-> skipQuality, skipVisual |-> skipVisual,
                started |-> IF skipQuality THEN <<"fullWorkflow">>
                            ELSE <<"qualityCheck">>,
                phase |-> IF skipQuality THEN "await fullWorkflow"
                          ELSE "await qualityCheck",
                qualityReport |-> IF skipQuality THEN SkippedQualityReport
                                  ELSE [passed |-> "unset"],
                analysisReport |-> "unset", errors |-> <<>>,
                outcome |-> [state |-> "pending"]]
  /\ UNCHANGED tsaVars

\* bond.qualityCheck resolves: the gate, then the analysis started
QualityCheckResolves ==
  /\ call.fn = "runFullAnalysis"
  /\ call.phase = "await qualityCheck"
  /\ \E dataValid \in BOOLEAN, methodologyValid \in BOOLEAN, hasDuplicates \in BOOLEAN :
       LET report == QualityReport(dataValid, methodologyValid, hasDuplicates)
       IN call' =
            IF QualityGateCloses(report)
            THEN [call EXCEPT !.qualityReport = report, !.phase = "settled",
                              !.outcome = [state |-> "rejected",
                                           error |-> QualityError(report)]]
            ELSE [call EXCEPT !.qualityReport = report,
                              !.started = Append(@, "fullWorkflow"),
                              !.phase = "await fullWorkflow"]
  /\ UNCHANGED tsaVars

\* an awaited call rejects outside the try block: the error propagates
AwaitRejects ==
  /\ call.fn = "runFullAnalysis"
  /\ call.phase \in { "await qualityCheck", "await fullWorkflow", "await close" }
  /\ call' = [call EXCEPT !.phase = "settled",
                          !.outcome = [state |-> "rejected",
                                       error |-> [name |-> "Error", message |-> call.phase]]]
  /\ UNCHANGED tsaVars

\* agent007.fullWorkflow resolves: null throws, a report goes on to the visual
\* report or, when that is skipped, to the return
FullWorkflowResolves ==
  /\ call.fn = "runFullAnalysis"
  /\ call.phase = "await fullWorkflow"
  /\ \E analysisReport \in { "null", "report" } :
       call' =
         IF analysisReport = "null"
         THEN [call EXCEPT !.analysisReport = analysisReport,
                           !.errors = Append(@, "TSA analysis failed"),
                           !.phase = "settled",
                           !.outcome = [state |-> "rejected",
                                        error |-> [name |-> "Error",
                                                   message |-> "TSA analysis failed"]]]
         ELSE IF ~call.skipVisual
         THEN [call EXCEPT !.analysisReport = analysisReport,
                           !.started = Append(@, "generateVisualReport"),
                           !.phase = "await generateVisualReport"]
         ELSE [call EXCEPT !.analysisReport = analysisReport,
                           !.phase = "settled",
                           !.outcome =
                             [state |-> "resolved",
                              value |-> FullPipelineResult(
                                          [call EXCEPT !.analysisReport = analysisReport],
                                          "Visual report skipped", call.errors)]]
  /\ UNCHANGED tsaVars

\* reporter.generateVisualReport resolves or rejects; either way the finally
\* block awaits reporter.close
VisualReportSettles ==
  /\ call.fn = "runFullAnalysis"
  /\ call.phase = "await generateVisualReport"
  /\ \E captured \in BOOLEAN :
       call' = [call EXCEPT
                  !.errors = IF captured THEN @
                             ELSE Append(@, "Screenshot capture failed"),
                  !.started = Append(@, "close"),
                  !.phase = "await close"]
  /\ UNCHANGED tsaVars

\* reporter.close resolves: the result is returned
CloseResolves ==
  /\ call.fn = "runFullAnalysis"
  /\ call.phase = "await close"
  /\ call' = [call EXCEPT
                !.phase = "settled",
                !.outcome =
                  [state |-> "resolved",
                   value |-> FullPipelineResult(
                               call,
                               IF call.errors = <<>> THEN "screenshots"
                               ELSE "Visual report unavailable",
                               call.errors)]]
  /\ UNCHANGED tsaVars

PipelineNext ==
  \/ RunFullAnalysis
  \/ QualityCheckResolves
  \/ AwaitRejects
  \/ FullWorkflowResolves
  \/ VisualReportSettles
  \/ CloseResolves

Pipeline == FunctionsInit /\ [][PipelineNext]_vars

(***************************************************************************)
(* Properties                                                              *)
(***************************************************************************)
Returned == result.kind = "results"

Crosses(rec) == IAbs(rec.zStatistic) > rec.monitoringBoundary
InsideFutility(rec) == rec.futilityBoundary > 0 /\ IAbs(rec.zStatistic) < rec.futilityBoundary

C2_DirectionMapping ==
  (Returned /\ Crosses(result.cumulativeData[Len(result.cumulativeData)])) =>
    /\ result.finalZ < 0 =>
         (result.pooledOR < ToF(1)
            /\ result.interpretation.title = "Conclusive: Favors Treatment")
    /\ result.finalZ > 0 =>
         (result.pooledOR > ToF(1)
            /\ result.interpretation.title = "Conclusive: Favors Control")

\* C3: one record per study, in input order; a crossing never stops the loop.
C3_OneRecordPerStudy ==
  /\ pc = "loop" => Len(cumulativeData) = i
  /\ \A k \in 1..Len(cumulativeData) :
       k <= Len(studies) /\ cumulativeData[k].study = StudyLabel(studies[k])
  /\ Returned =>
       /\ result.cumulativeData = cumulativeData
       /\ Len(result.cumulativeData) = Len(studies)

\* the whole list was processed although the first record crossed the
\* monitoring boundary and a later one lay inside the futility boundary
C3_Witness ==
  /\ Returned
  /\ Len(result.cumulativeData) = 3
  /\ Crosses(result.cumulativeData[1])
  /\ InsideFutility(result.cumulativeData[2])

\* C4: the empty list returns null, every non-empty list a result object.
C4_NullIffEmpty ==
  pc = "done" =>
    IF Len(studies) = 0 THEN result = Null
    ELSE Returned /\ Len(result.cumulativeData) > 0

C4_Witness == pc = "done" /\ Len(studies) = 0 /\ result = Null

\* C5: the monitoring boundaries of the trace are non-increasing from each
\* record to the next.
C5_BoundariesNonIncreasing ==
  \A k \in 1..(Len(cumulativeData) - 1) :
    cumulativeData[k + 1].monitoringBoundary <= cumulativeData[k].monitoringBoundary

RECURSIVE SumTotals(_, _)
SumTotals(ss, k) ==
  IF k = 0 THEN 0 ELSE SumTotals(ss, k - 1) + ss[k].totalTrt + ss[k].totalCtrl

\* C7: the patients field of record k is the sum of both arms' totals over
\* the first k studies, hence strictly increasing along the trace.
C7_CumulativePatients ==
  /\ \A k \in 1..Len(cumulativeData) :
       cumulativeData[k].patients = SumTotals(studies, k)
  /\ \A k \in 1..(Len(cumulativeData) - 1) :
       cumulativeData[k].patients < cumulativeData[k + 1].patients
  /\ Returned => result.totalPatients = SumTotals(studies, Len(studies))

C7_Witness ==
  /\ Returned
  /\ Len(result.cumulativeData) = 3
  /\ result.cumulativeData[1].patients < result.cumulativeData[2].patients
  /\ result.cumulativeData[2].patients < result.totalPatients

\* C8: with futilityBoundaryType 'none' every record has futility boundary 0
\* and the interpretation is never futility.
C8_NoFutilityWhenNone ==
  params.futilityBoundaryType = "none" =>
    /\ \A k \in 1..Len(cumulativeData) : cumulativeData[k].futilityBoundary = 0
    /\ Returned => result.interpretation.type # "futility"

RecordFinite(rec) ==
  /\ IsFinite(rec.pooledOR) /\ IsFinite(rec.ci95Lower) /\ IsFinite(rec.ci95Upper)
  /\ IsFinite(rec.zStatistic) /\ IsFinite(rec.informationFraction)
  /\ IsFinite(rec.monitoringBoundary) /\ IsFinite(rec.futilityBoundary)
  /\ IsFinite(rec.alphaSpent) /\ IsFinite(rec.betaSpent)

HeterogeneityFinite(het) ==
  IsFinite(het.q) /\ IsFinite(het.i2) /\ IsFinite(het.tau2) /\ IsFinite(het.pValue)

\* C9: every numeric field of every cumulative record and of the
\* heterogeneity statistics is a finite number.
C9_AllFieldsFinite ==
  /\ \A k \in 1..Len(cumulativeData) : RecordFinite(cumulativeData[k])
  /\ pc # "start" => HeterogeneityFinite(heterogeneity)

\* C10: zStatistic is ln(pooledOR)/SE when the pooled SE over the first k
\* studies is finite and > 0, and exactly 0 otherwise; it is never NaN or
\* infinite.
C10_ZStatistic ==
  \A k \in 1..Len(cumulativeData) :
    LET se == calculatePooledOR(SubSeq(studies, 1, k)).se
        z  == cumulativeData[k].zStatistic
    IN /\ IsFinite(z)
       /\ IF IsFinite(se) /\ se > 0
          THEN z = FDiv(FLog(cumulativeData[k].pooledOR), se)
          ELSE z = 0

\* an uninformative step (pooled OR 0, SE infinite) followed by an
\* informative one
C10_Witness ==
  /\ Len(cumulativeData) >= 2
  /\ calculatePooledOR(SubSeq(studies, 1, 1)).se = PosInf
  /\ cumulativeData[1].pooledOR = 0
  /\ cumulativeData[1].zStatistic = 0
  /\ IsFinite(calculatePooledOR(SubSeq(studies, 1, 2)).se)
  /\ cumulativeData[2].zStatistic < 0

\* the two-sided tail probability 2 [1 - Phi(z)] of a boundary z
TwoSidedTail(z) == FMul(ToF(2), FSub(Scale, normalCDF(z)))

\* what the approximation of Phi and the rounding of the arithmetic leave
\* between two probabilities that are meant to be equal
PhiTolerance == Dec(5, 10000)

\* z_{alpha/2}, the two-sided critical value
ZAlphaHalf(alpha) == normalQuantile(FSub(Scale, FDiv(alpha, ToF(2))))

\* C11: for every information fraction t > 0 the two-sided tail probability
\* of the monitoring boundary, 2 [1 - Phi(computeMonitoringBoundary(t, alpha))],
\* equals lanDeMetsAlphaSpending(t, alpha) up to the approximation error of
\* Phi, also for t between 1 and 1.5.
C11_BoundaryMatchesSpending ==
  (call.fn = "computeMonitoringBoundary" /\ call.t > 0) =>
    IAbs(TwoSidedTail(call.value) - lanDeMetsAlphaSpending(call.t, call.alpha))
      <= PhiTolerance

\* C12: for every t in (0, 1) and all alpha, beta in (0, 0.5) the
\* O'Brien-Fleming futility boundary is positive and strictly smaller than
\* the monitoring boundary at the same t.
C12_FutilityInsideMonitoring ==
  (/\ call.fn = "computeFutilityBoundary"
   /\ call.boundaryType # "none"
   /\ call.t > 0 /\ call.t < Scale) =>
    /\ call.value > 0
    /\ \A alpha \in AlphaPool : call.value < computeMonitoringBoundary(call.t, alpha)

C14_SpendingEndpointsAndIncrease ==
  /\ call.fn = "lanDeMetsAlphaSpending" =>
       /\ call.t <= 0 => call.value = 0
       /\ call.t >= Scale => call.value = call.alpha
       /\ (call.t > 0 /\ call.t < Scale) =>
            \A t2 \in SpendingTGrid :
              (call.t < t2 /\ t2 < Scale) =>
                call.value < lanDeMetsAlphaSpending(t2, call.alpha)
  /\ call.fn = "lanDeMetsBetaSpending" =>
       /\ call.t <= 0 => call.value = 0
       /\ call.t >= Scale => call.value = call.beta

\* the studies with an event in at least one arm
Retained(ss) == SelectSeq(ss, LAMBDA study : study.eventsTrt > 0 \/ study.eventsCtrl > 0)

\* one study's Mantel-Haenszel term from its uncorrected counts
RawTerm(study, part) ==
  LET a == study.eventsTrt
      b == study.totalTrt - study.eventsTrt
      c == study.eventsCtrl
      d == study.totalCtrl - study.eventsCtrl
      n == ToF(study.totalTrt + study.totalCtrl)
      R == FDiv(ToF(a * d), n)
      S == FDiv(ToF(b * c), n)
      P == FDiv(ToF(a + d), n)
      Q == FDiv(ToF(b + c), n)
  IN CASE part = "R" -> R
       [] part = "S" -> S
       [] part = "PR" -> FMul(P, R)
       [] part = "PS_QR" -> FAdd(FMul(P, S), FMul(Q, R))
       [] part = "QS" -> FMul(Q, S)

\* the sum of one term over the first k studies, in list order
RECURSIVE RawSum(_, _, _)
RawSum(ss, k, part) ==
  IF k = 0 THEN 0 ELSE FAdd(RawSum(ss, k - 1, part), RawTerm(ss[k], part))

RawTotal(ss, part) == RawSum(ss, Len(ss), part)

\* Var(ln OR_MH) of Robins, Breslow and Greenland from the uncorrected sums
RawVariance(ss) ==
  LET R == RawTotal(ss, "R")
      S == RawTotal(ss, "S")
  IN FAdd(FAdd(FDiv(RawTotal(ss, "PR"), FMul(FMul(ToF(2), R), R)),
               FDiv(RawTotal(ss, "PS_QR"), FMul(FMul(ToF(2), R), S))),
          FDiv(RawTotal(ss, "QS"), FMul(FMul(ToF(2), S), S)))

HasZeroCell(study) ==
  \/ study.eventsTrt = 0 \/ study.eventsTrt = study.totalTrt
  \/ study.eventsCtrl = 0 \/ study.eventsCtrl = study.totalCtrl

\* C15: calculatePooledOR(studies) equals calculatePooledOR of the list
\* without its double-zero studies, and the pooled OR and SE are those of the
\* sums R, S, sum PR, sum (PS + QR), sum QS over the retained studies'
\* uncorrected counts, also when a retained study has a zero cell.
C15_RawCountsWithoutDoubleZero ==
  call.fn = "calculatePooledOR" =>
    LET kept == Retained(call.studies)
        R == RawTotal(kept, "R")
        S == RawTotal(kept, "S")
    IN /\ call.value = calculatePooledOR(kept)
       /\ Len(kept) > 0 =>
            /\ S > 0 => call.value.or = FDiv(R, S)
            /\ (R > 0 /\ S > 0) => call.value.se = FSqrt(RawVariance(kept))

C15_Witness ==
  /\ call.fn = "calculatePooledOR"
  /\ \E k \in 1..Len(call.studies) : IsDoubleZero(call.studies[k])
  /\ \E k \in 1..Len(call.studies) :
       ~IsDoubleZero(call.studies[k]) /\ HasZeroCell(call.studies[k])
  /\ IsFinite(call.value.se)
  /\ call.value.or > 0

\* C16: calculatePooledOR returns OR = 1 and SE = Infinity when no study is
\* left after the double-zero filter; OR = 1 when S = 0; SE = Infinity when
\* R = 0 or S = 0; and OR = R/S with a finite SE > 0 when R > 0 and S > 0.
C16_DegeneratePooling ==
  call.fn = "calculatePooledOR" =>
    LET kept == Retained(call.studies)
        R == RawTotal(kept, "R")
        S == RawTotal(kept, "S")
    IN /\ ~IsNaN(call.value.or) /\ ~IsNaN(call.value.se)
       /\ Len(kept) = 0 => call.value = [or |-> ToF(1), se |-> PosInf]
       /\ S = 0 => call.value.or = ToF(1)
       /\ (R = 0 \/ S = 0) => call.value.se = PosInf
       /\ (R > 0 /\ S > 0) =>
            /\ call.value.or = FDiv(R, S)
            /\ IsFinite(call.value.se)
            /\ call.value.se > 0

C16_Witness ==
  /\ call.fn = "calculatePooledOR"
  /\ Len(Retained(call.studies)) > 0
  /\ RawTotal(call.studies, "R") = 0
  /\ RawTotal(call.studies, "S") > 0
  /\ call.value = [or |-> 0, se |-> PosInf]

\* C17: calculateStudyOR adds 0.5 to all four cells when any cell is zero and
\* changes none otherwise; the OR and the SE it returns are finite and > 0
\* for every study with events <= totals and totals > 0.
C17_ContinuityCorrection ==
  call.fn = "calculateStudyOR" =>
    LET k == IF HasZeroCell(call.study) THEN Dec(5, 10) ELSE 0
        a == ToF(call.study.eventsTrt) + k
        b == ToF(call.study.totalTrt - call.study.eventsTrt) + k
        c == ToF(call.study.eventsCtrl) + k
        d == ToF(call.study.totalCtrl - call.study.eventsCtrl) + k
    IN /\ call.value.or = FDiv(FMul(a, d), FMul(b, c))
       /\ call.value.se =
            FSqrt(FAdd(FAdd(FAdd(FDiv(Scale, a), FDiv(Scale, b)), FDiv(Scale, c)),
                       FDiv(Scale, d)))
       /\ IsFinite(call.value.or) /\ call.value.or > 0
       /\ IsFinite(call.value.se) /\ call.value.se > 0

C17_Witness ==
  /\ call.fn = "calculateStudyOR"
  /\ call.study.eventsTrt = 0
  /\ call.study.eventsCtrl > 0
  /\ call.value.or > 0
  /\ IsFinite(call.value.se)

\* C18: for every list of two or more studies calculateHeterogeneity returns
\* Q >= 0, I2 in [0, 100] and tau2 >= 0, none of them NaN, also when the
\* studies are identical and when the pooled OR is degenerate.
C18_HeterogeneityRanges ==
  (call.fn = "calculateHeterogeneity" /\ Len(call.studies) >= 2) =>
    /\ ~IsNaN(call.value.q) /\ call.value.q >= 0
    /\ ~IsNaN(call.value.i2) /\ call.value.i2 >= 0 /\ call.value.i2 <= ToF(100)
    /\ ~IsNaN(call.value.tau2) /\ call.value.tau2 >= 0

NoHeterogeneity == [q |-> 0, i2 |-> 0, tau2 |-> 0, pValue |-> ToF(1)]

\* C19: calculateHeterogeneity of fewer than two studies is exactly Q = 0,
\* I2 = 0, tau2 = 0 and p-value = 1, whatever the study's counts; calculateTSA
\* of a single study reports these values.
C19_NoHeterogeneityBelowTwo ==
  /\ calculateHeterogeneity(<<>>) = NoHeterogeneity
  /\ (Len(studies) = 1 /\ pc \in {"loop", "done"}) =>
       /\ heterogeneity = NoHeterogeneity
       /\ Returned => result.heterogeneity = NoHeterogeneity

C19_Witness ==
  /\ Len(studies) = 1
  /\ studies[1].eventsTrt = 0
  /\ Returned
  /\ result.heterogeneity = NoHeterogeneity

C21_SmallerEffectLargerRIS ==
  (/\ call.fn = "calculateRIS"
   /\ call.params.effectSize > 0
   /\ call.params.effectSize < ToF(100)) =>
    \A p2 \in RISParamsPool :
      (/\ [p2 EXCEPT !.effectSize = call.params.effectSize] = call.params
       /\ p2.effectSize > call.params.effectSize
       /\ p2.effectSize < ToF(100)) =>
        /\ call.value >= calculateRIS(p2)
        /\ (/\ call.params.effectSize = ToF(25)
            /\ p2.effectSize \in { ToF(30), ToF(50) }
            /\ call.value # 100000) => call.value > calculateRIS(p2)

\* C22: when useI2Adjustment is true the ris returned by calculateTSA, which
\* divides the cumulative patients in every information fraction, is the RIS
\* inflated by 1/(1 - I2) for the I2 of the studies (calculateRISWithI2, or
\* calculateRIS(params) times that factor); otherwise it is calculateRIS(params).
C22_UseI2AdjustmentTogglesRIS ==
  Returned =>
    /\ IF ToString(params.useI2Adjustment) = "TRUE"
       THEN result.ris \in
              { calculateRISWithI2(params, result.heterogeneity.i2),
                FCeil(calculateRIS(params)
                        * I2AdjustmentFactor(result.heterogeneity.i2)) }
       ELSE result.ris = calculateRIS(params)
    /\ \A k \in 1..Len(result.cumulativeData) :
         result.cumulativeData[k].informationFraction =
           FDiv(ToF(result.cumulativeData[k].patients), ToF(result.ris))

ChiSquaredBounds ==
  call.fn = "chiSquaredCDF" =>
    /\ (call.phase = "returned" /\ (FLe(call.x, 0) \/ FLe(call.df, 0))) =>
         (ChiReturnValue(call) = 0 /\ call.iterations = 0 /\ call.depth = 0)
    /\ call.branch = "series" => call.iterations <= 99
    /\ call.branch = "fraction" => call.iterations <= 100
    /\ call.depth <= 1

C24_ChiSquaredTerminates ==
  /\ []ChiSquaredBounds
  /\ (call.fn = "chiSquaredCDF") ~> (call.fn = "chiSquaredCDF" /\ call.phase = "returned")

\* a call whose continued fraction never met the tolerance has returned after
\* 100 iterations
C24_Witness ==
  /\ call.fn = "chiSquaredCDF"
  /\ call.phase = "returned"
  /\ call.branch = "fraction"
  /\ call.iterations = 100
  /\ ~call.st.done

\* C25: runFullAnalysis starts its phases in the order quality check, TSA
\* analysis, screenshots; unless skipQuality is set, a quality report with
\* passed = false makes the call reject with a QualityError carrying that report,
\* and neither agent007.fullWorkflow nor a screenshot capture is started.
PhaseRank(phase) ==
  CASE phase = "qualityCheck" -> 1
    [] phase = "fullWorkflow" -> 2
    [] phase = "generateVisualReport" -> 3
    [] phase = "close" -> 4

C25_QualityGate ==
  call.fn = "runFullAnalysis" =>
    /\ \A j \in 1..Len(call.started), k \in 1..Len(call.started) :
         j < k => PhaseRank(call.started[j]) < PhaseRank(call.started[k])
    /\ (~call.skipQuality /\ ToString(call.qualityReport.passed) = "FALSE") =>
         /\ call.outcome = [state |-> "rejected", error |-> QualityError(call.qualityReport)]
         /\ call.started = <<"qualityCheck">>
    /\ (~call.skipQuality /\ Len(call.started) > 1) =>
         ToString(call.qualityReport.passed) = "TRUE"

\* a report with a duplicate among the studies has stopped the run
C25_Witness ==
  /\ call.fn = "runFullAnalysis"
  /\ ~call.skipQuality
  /\ call.phase = "settled"
  /\ call.qualityReport = QualityReport(TRUE, TRUE, TRUE)
  /\ call.outcome.state = "rejected"
  /\ call.outcome.error.name = "QualityError"

\* C26: every record of calculateTSA(studies[0..i], params) equals the record
\* at the same place of calculateTSA(studies, params), its last record included:
\* a record depends only on the studies up to it and on params.
C26_PrefixStable ==
  (call.fn = "calculateTSA on a prefix" /\ pc = "done") =>
    /\ Returned
    /\ Len(result.cumulativeData) = Len(studies)
    /\ \A k \in 1..Len(studies) :
         result.cumulativeData[k] = call.value.cumulativeData[k]

\* the run on the first two of three studies with different effects has
\* returned
C26_Witness ==
  /\ call.fn = "calculateTSA on a prefix"
  /\ pc = "done"
  /\ Len(call.studies) = 3
  /\ Len(studies) = 2
  /\ call.studies[1].name = "A"
  /\ call.studies[2].name = "B"
  /\ call.studies[3].name = "F"
  /\ result.cumulativeData[2] = call.value.cumulativeData[2]
  /\ result.cumulativeData[2] # call.value.cumulativeData[3]

\* C27: in every record with a positive information fraction the monitoring
\* boundary is at least the fixed-sample critical value z_{alpha/2}, so a
\* conclusive interpretation implies |finalZ| > z_{alpha/2}.
C27_BoundaryAtLeastCritical ==
  /\ \A k \in 1..Len(cumulativeData) :
       cumulativeData[k].informationFraction > 0 =>
         cumulativeData[k].monitoringBoundary >= ZAlphaHalf(params.alpha)
  /\ (Returned /\ result.interpretation.type \in { "conclusive-benefit", "conclusive-harm" }) =>
       FAbs(result.finalZ) > ZAlphaHalf(params.alpha)

\* C28: when the final information fraction is at least 1 the final futility
\* boundary is the quantile of beta, which is negative, the interpretation is
\* never futility, and a final record that is not conclusive is inconclusive.
C28_NoFutilityAtFullInformation ==
  (Returned /\ result.informationFraction >= Scale) =>
    LET last == result.cumulativeData[Len(result.cumulativeData)]
    IN /\ last.futilityBoundary = normalQuantile(params.beta)
       /\ last.futilityBoundary < 0
       /\ result.interpretation.type # "futility"
       /\ ~FGt(FAbs(last.zStatistic), last.monitoringBoundary) =>
            result.interpretation.type = "inconclusive"

\* a run past its required information size whose Z lies inside the monitoring
\* boundary and below the quantile of 1 - beta
C28_Witness ==
  /\ Returned
  /\ result.informationFraction >= Scale
  /\ result.interpretation.type = "inconclusive"
  /\ FAbs(result.finalZ) < normalQuantile(FSub(Scale, params.beta))

\* C29: when the pooled standard error of the whole list is infinite (Z forced
\* to 0) the interpretation returned by calculateTSA is inconclusive, never
\* futility and never conclusive.
C29_UninformativeIsInconclusive ==
  (Returned /\ calculatePooledOR(studies).se = PosInf) =>
    /\ result.finalZ = 0
    /\ result.interpretation.type = "inconclusive"

\* C30: for every non-empty study list calculateZStatistic(studies) equals the
\* finalZ returned by calculateTSA(studies, params), lists with an infinite
\* pooled standard error included.
C30_ZStatisticAgreesWithDriver ==
  Returned => calculateZStatistic(studies) = result.finalZ
====
